---------------------------- MODULE Spec2Model ----------------------------
(***************************************************************************)
(* Brag Document MCP: the section locator, the entry insertion and entry   *)
(* mutation engines over the flat paragraph stream of a document, and the  *)
(* side-car index that records every inserted entry.                       *)
(*                                                                         *)
(* Conventions of the model                                                *)
(*   - a text is a sequence of tokens; a token is a string standing for    *)
(*     the characters it spells (" " is a whitespace character), so that   *)
(*     strip(), concatenation, equality and length are computed, not       *)
(*     assumed;                                                            *)
(*   - a document is the sequence doc.paragraphs; paragraph indices are    *)
(*     0-based as in the source: Para(d, i) is d.paragraphs[i];            *)
(*   - an Optional value is a sequence: << >> is None, <<v>> is v; the     *)
(*     Optional[Tuple[int, int]] of the locator is << >> or <<s, e>>;      *)
(*   - eid is a ghost field of a paragraph: the entry identifier the       *)
(*     paragraph was inserted for (0 for every other paragraph).  No       *)
(*     operation reads it.                                                 *)
(***************************************************************************)
EXTENDS Integers, Sequences, FiniteSets, TLC

VARIABLES
    full_name,        \* the full name of the (full_name, year) followed
    template_exists,  \* the template file exists
    template,         \* paragraphs of the template file
    doc_exists,       \* the document file of (full_name, year) exists
    doc,              \* paragraphs of the document file
    backup_exists,    \* the .backup.docx file of the document exists
    index_exists,     \* the index file of (full_name, year) exists
    index,            \* content of the index file
    clock,            \* datetime.now()
    next_id,          \* supply of fresh uuid4 values
    updates,          \* number of update_entry calls made so far
    last,             \* the last call and the result it returned
    calls             \* the add_entry calls that run step by step

vars == <<full_name, template_exists, template, doc_exists, doc,
          backup_exists, index_exists, index, clock, next_id, updates, last,
          calls>>

-----------------------------------------------------------------------------
(* Bounds *)

\* longest document of AllDocs
MaxDocLen == 4
\* number of add_entry calls that get as far as generating an identifier
MaxEntries == 2
\* number of update_entry calls
MaxUpdates == 1
\* latest reading of the clock
MaxClock == 1
\* most paragraphs after the title in a template of AllTemplates
MaxTemplateLen == 3

-----------------------------------------------------------------------------
(* Text *)

Min(S) == CHOOSE x \in S : \A y \in S : x <= y

MinInt(a, b) == IF a <= b THEN a ELSE b

IsSpace(tok) == tok = " "

RECURSIVE LStrip(_)
LStrip(t) ==
    IF t = << >> THEN << >>
    ELSE IF IsSpace(Head(t)) THEN LStrip(Tail(t)) ELSE t

RECURSIVE RStrip(_)
RStrip(t) ==
    IF t = << >> THEN << >>
    ELSE IF IsSpace(t[Len(t)]) THEN RStrip(SubSeq(t, 1, Len(t) - 1)) ELSE t

\* str.strip()
Strip(t) == RStrip(LStrip(t))

\* len(str): the number of characters the tokens spell
RECURSIVE CharLen(_)
CharLen(t) == IF t = << >> THEN 0 ELSE Len(Head(t)) + CharLen(Tail(t))

Max(S) == CHOOSE x \in S : \A y \in S : x >= y

\* str.startswith, on the first token
StartsWith(t, tok) == t # << >> /\ Head(t) = tok

\* the bullet character U+2022, one character wide
BulletGlyph == "*"

\* the bullet character, a blank, then the text
Bullet(text) == <<BulletGlyph, " ">> \o text

\* paragraph.text: the texts of the runs, concatenated
RECURSIVE RunsText(_)
RunsText(runs) ==
    IF runs = << >> THEN << >> ELSE Head(runs).text \o RunsText(Tail(runs))

ParaText(p) == RunsText(p.runs)

\* doc.paragraphs[i], 0 <= i < len(doc.paragraphs)
Para(d, i) == d[i + 1]

-----------------------------------------------------------------------------
(* Heading classifier *)

HeadingTextLimit == 100

is_heading_paragraph(p) ==
    IF Strip(ParaText(p)) = << >> THEN FALSE
    ELSE IF StartsWith(p.style, "Heading") THEN TRUE
    ELSE IF p.runs # << >>
            /\ \A r \in 1..Len(p.runs) :
                  Strip(p.runs[r].text) # << >> => p.runs[r].bold
         THEN TRUE
    ELSE CharLen(Strip(ParaText(p))) < HeadingTextLimit
         /\ p.runs # << >> /\ p.runs[1].bold

-----------------------------------------------------------------------------
(* Section locator *)

GoalsNextYear == <<"Goals for next year">>
GoalsNextYearOptional == <<"Goals for next year", " ", "(optional)">>

top_level_sections ==
    << <<"Goals for this year">>,
       GoalsNextYear,
       GoalsNextYearOptional,
       <<"Projects">>,
       <<"Collaboration & mentorship">>,
       <<"Documentation">>,
       <<"What you learned">>,
       <<"Outside of work">> >>

\* str.split('/'): the pieces between the "/" tokens
RECURSIVE SplitPath(_)
SplitPath(t) ==
    IF \A k \in 1..Len(t) : t[k] # "/" THEN <<t>>
    ELSE LET k == Min({n \in 1..Len(t) : t[n] = "/"})
         IN  <<SubSeq(t, 1, k - 1)>> \o SplitPath(SubSeq(t, k + 1, Len(t)))

\* section_parts[0]
MainSection(section_path) == Strip(SplitPath(section_path)[1])

\* section_parts[1] if there is one, else None; the source tests its
\* truthiness, so None and the empty string are the same << >>
NestedSection(section_path) ==
    IF Len(SplitPath(section_path)) > 1
    THEN Strip(SplitPath(section_path)[2]) ELSE << >>

\* is_match of the main-section scan
IsMainMatch(para_text, main_section) ==
    \/ para_text = main_section
    \/ main_section = GoalsNextYear /\ para_text = GoalsNextYearOptional

\* the paragraphs the main-section scan stops at
MainHeadings(d, main_section) ==
    {i \in 0..Len(d) - 1 :
        /\ is_heading_paragraph(Para(d, i))
        /\ IsMainMatch(Strip(ParaText(Para(d, i))), main_section)}

\* the loop over top_level_sections from its k-th name on: the first name,
\* in the order of the list, that heads a paragraph after i decides
RECURSIVE SectionEnd(_, _, _, _)
SectionEnd(d, i, main_section, k) ==
    IF k > Len(top_level_sections) THEN Len(d)
    ELSE IF top_level_sections[k] = main_section
         THEN SectionEnd(d, i, main_section, k + 1)
    ELSE LET js == {j \in i + 1..Len(d) - 1 :
                       /\ is_heading_paragraph(Para(d, j))
                       /\ Strip(ParaText(Para(d, j))) = top_level_sections[k]}
         IN  IF js # {} THEN Min(js)
             ELSE SectionEnd(d, i, main_section, k + 1)

\* the nested scan run to the end of the document instead of section_end
NestedRange_wholeDocument(d, nested_section, section_start, section_end) ==
    LET is == {i \in section_start..Len(d) - 1 :
                  /\ is_heading_paragraph(Para(d, i))
                  /\ Strip(ParaText(Para(d, i))) = nested_section}
    IN  IF is = {} THEN << >>
        ELSE LET i  == Min(is)
                 js == {j \in i + 1..Len(d) - 1 :
                           is_heading_paragraph(Para(d, j))}
             IN  <<i + 1, IF js # {} THEN Min(js) ELSE Len(d)>>

\* the nested scan inside [section_start, section_end)
NestedRange(d, nested_section, section_start, section_end) ==
    LET is == {i \in section_start..section_end - 1 :
                  /\ is_heading_paragraph(Para(d, i))
                  /\ Strip(ParaText(Para(d, i))) = nested_section}
    IN  IF is = {} THEN << >>
        ELSE LET i  == Min(is)
                 js == {j \in i + 1..section_end - 1 :
                           is_heading_paragraph(Para(d, j))}
             IN  <<i + 1, IF js # {} THEN Min(js) ELSE section_end>>

\* find_section_paragraph with a range that starts at the heading itself
find_section_paragraph_fromHeading(d, section_path) ==
    LET main_section   == MainSection(section_path)
        nested_section == NestedSection(section_path)
        hs             == MainHeadings(d, main_section)
    IN  IF hs = {} THEN << >>
        ELSE LET i             == Min(hs)
                 section_start == i
                 section_end   == SectionEnd(d, i, main_section, 1)
             IN  IF nested_section # << >>
                 THEN NestedRange(d, nested_section, section_start, section_end)
                 ELSE <<section_start, section_end>>

find_section_paragraph(d, section_path) ==
    LET main_section   == MainSection(section_path)
        nested_section == NestedSection(section_path)
        hs             == MainHeadings(d, main_section)
    IN  IF hs = {} THEN << >>
        ELSE LET i             == Min(hs)
                 section_start == i + 1
                 section_end   == SectionEnd(d, i, main_section, 1)
             IN  IF nested_section # << >>
                 THEN NestedRange(d, nested_section, section_start, section_end)
                 ELSE <<section_start, section_end>>

-----------------------------------------------------------------------------
(* Entry insertion engine *)

\* the paragraph insert_paragraph_before() / add_paragraph() creates, after
\* add_run: default style, one run that is not bold
NewParagraph(text, eid) ==
    [style |-> <<"Normal">>,
     runs  |-> <<[text |-> Bullet(text), bold |-> FALSE]>>,
     eid   |-> eid]

\* the paragraph list once p is inserted before the paragraph at index k
InsertBefore(d, k, p) == SubSeq(d, 1, k) \o <<p>> \o SubSeq(d, k + 1, Len(d))

\* AppendIndex that appends at the end of the section, after its trailing
\* blank paragraphs
AppendIndex_atSectionEnd(d, start_idx, end_idx) == end_idx

\* position is None: one past the last paragraph of [start_idx, end_idx)
\* whose stripped text is not empty, or start_idx
AppendIndex(d, start_idx, end_idx) ==
    LET nonblank == {i \in start_idx..end_idx - 1 :
                        Strip(ParaText(Para(d, i))) # << >>}
    IN  IF nonblank = {} THEN start_idx ELSE Max(nonblank) + 1

\* insert_idx before the paragraph is created
InsertIndex(d, start_idx, end_idx, position) ==
    MinInt(IF position = << >>
           THEN AppendIndex(d, start_idx, end_idx)
           ELSE MinInt(start_idx + position[1], end_idx),
           Len(d))

\* add_entry_to_document that appends to the document when the section is
\* not found
add_entry_to_document_atDocumentEnd(d, section_path, text, position, eid) ==
    LET section_range == find_section_paragraph(d, section_path)
    IN  IF section_range = << >>
        THEN [status |-> "ok", doc |-> Append(d, NewParagraph(text, eid)),
              paragraph_index |-> Len(d)]
        ELSE LET insert_idx == InsertIndex(d, section_range[1],
                                           section_range[2], position)
                 p == NewParagraph(text, eid)
             IN  IF insert_idx < Len(d)
                 THEN IF insert_idx < 0 - Len(d)
                      THEN [status |-> "IndexError", doc |-> d,
                            paragraph_index |-> 0]
                      ELSE [status |-> "ok",
                            doc |-> InsertBefore(d,
                                       IF insert_idx < 0
                                       THEN Len(d) + insert_idx
                                       ELSE insert_idx, p),
                            paragraph_index |-> insert_idx]
                 ELSE [status |-> "ok", doc |-> Append(d, p),
                       paragraph_index |-> Len(d)]

\* the outcome of add_entry_to_document: the exception it raises or "ok",
\* the paragraphs it saved and the index it returned.  A negative
\* insert_idx indexes doc.paragraphs from the end, as Python lists do, and
\* raises IndexError below -len(doc.paragraphs).
add_entry_to_document(d, section_path, text, position, eid) ==
    LET section_range == find_section_paragraph(d, section_path)
    IN  IF section_range = << >>
        THEN [status |-> "ValueError", doc |-> d, paragraph_index |-> 0]
        ELSE LET insert_idx == InsertIndex(d, section_range[1],
                                           section_range[2], position)
                 p == NewParagraph(text, eid)
             IN  IF insert_idx < Len(d)
                 THEN IF insert_idx < 0 - Len(d)
                      THEN [status |-> "IndexError", doc |-> d,
                            paragraph_index |-> 0]
                      ELSE [status |-> "ok",
                            doc |-> InsertBefore(d,
                                       IF insert_idx < 0
                                       THEN Len(d) + insert_idx
                                       ELSE insert_idx, p),
                            paragraph_index |-> insert_idx]
                 ELSE [status |-> "ok", doc |-> Append(d, p),
                       paragraph_index |-> Len(d)]

-----------------------------------------------------------------------------
(* Entry mutation engine *)

\* update_entry_to_document without its range check: doc.paragraphs is
\* indexed as Python lists are, a negative index counting from the end
update_entry_to_document_unchecked(d, paragraph_index, new_text) ==
    IF paragraph_index < 0 - Len(d) \/ paragraph_index >= Len(d)
    THEN [status |-> "IndexError", doc |-> d]
    ELSE [status |-> "ok",
          doc |-> [d EXCEPT ![IF paragraph_index < 0
                              THEN Len(d) + paragraph_index + 1
                              ELSE paragraph_index + 1].runs =
                      <<[text |-> Bullet(new_text), bold |-> FALSE]>>]]

\* para.clear() keeps the paragraph and its style and drops its runs;
\* add_run adds one run that is not bold
update_entry_to_document(d, paragraph_index, new_text) ==
    IF paragraph_index < 0 \/ paragraph_index >= Len(d)
    THEN [status |-> "IndexError", doc |-> d]
    ELSE [status |-> "ok",
          doc |-> [d EXCEPT ![paragraph_index + 1].runs =
                      <<[text |-> Bullet(new_text), bold |-> FALSE]>>]]

-----------------------------------------------------------------------------
(* Index synchronizer *)

\* Every call takes the reading t that datetime.now() gives while it runs;
\* clock is the latest reading, so a call that reads no time leaves it alone.

\* the index ensure_index_file writes at time t
EmptyIndex(t) ==
    [created_at |-> t, updated_at |-> t, sections |-> << >>, entries |-> << >>]

\* ensure_index_file that writes the empty structure over an existing file
ensure_index_file_overwrite(exists, idx, t) == EmptyIndex(t)

\* the index file after ensure_index_file
ensure_index_file(exists, idx, t) == IF exists THEN idx ELSE EmptyIndex(t)

\* entry identifiers are the integers 1, 2, ... in the order uuid4 yields
\* them: a fresh value at every call
generate_entry_id(n) == n

\* add_entry_to_index that records the entry and forgets to list it in its
\* section
add_entry_to_index_unlisted(idx, entry_id, section_path, text, paragraph_index, t) ==
    LET sections1 ==
            IF section_path \in DOMAIN idx.sections THEN idx.sections
            ELSE idx.sections @@
                 (section_path :> [created_at |-> t, entry_ids |-> << >>])
        entry_data ==
            [entry_id        |-> entry_id,
             section_path    |-> section_path,
             text            |-> text,
             paragraph_index |-> paragraph_index,
             created_at      |-> t,
             updated_at      |-> t]
    IN  [created_at |-> idx.created_at,
         updated_at |-> t,
         sections   |-> sections1,
         entries    |-> [e \in DOMAIN idx.entries \cup {entry_id} |->
                            IF e = entry_id THEN entry_data
                            ELSE idx.entries[e]]]

\* add_entry_to_index that puts the new id first in its section
add_entry_to_index_prepended(idx, entry_id, section_path, text, paragraph_index, t) ==
    LET sections1 ==
            IF section_path \in DOMAIN idx.sections THEN idx.sections
            ELSE idx.sections @@
                 (section_path :> [created_at |-> t, entry_ids |-> << >>])
        entry_data ==
            [entry_id        |-> entry_id,
             section_path    |-> section_path,
             text            |-> text,
             paragraph_index |-> paragraph_index,
             created_at      |-> t,
             updated_at      |-> t]
    IN  [created_at |-> idx.created_at,
         updated_at |-> t,
         sections   |-> [sections1 EXCEPT ![section_path].entry_ids =
                                              <<entry_id>> \o @],
         entries    |-> [e \in DOMAIN idx.entries \cup {entry_id} |->
                            IF e = entry_id THEN entry_data
                            ELSE idx.entries[e]]]

add_entry_to_index(idx, entry_id, section_path, text, paragraph_index, t) ==
    LET sections1 ==
            IF section_path \in DOMAIN idx.sections THEN idx.sections
            ELSE idx.sections @@
                 (section_path :> [created_at |-> t, entry_ids |-> << >>])
        entry_data ==
            [entry_id        |-> entry_id,
             section_path    |-> section_path,
             text            |-> text,
             paragraph_index |-> paragraph_index,
             created_at      |-> t,
             updated_at      |-> t]
    IN  [created_at |-> idx.created_at,
         updated_at |-> t,
         sections   |-> [sections1 EXCEPT ![section_path].entry_ids =
                                              Append(@, entry_id)],
         entries    |-> [e \in DOMAIN idx.entries \cup {entry_id} |->
                            IF e = entry_id THEN entry_data
                            ELSE idx.entries[e]]]

\* update_entry_to_index that leaves the updated_at of the entry as it was
update_entry_to_index_staleStamp(idx, entry_id, new_text, t) ==
    IF entry_id \notin DOMAIN idx.entries
    THEN [status |-> "KeyError", index |-> idx]
    ELSE [status |-> "ok",
          index  |-> [idx EXCEPT !.entries[entry_id].text = new_text,
                                 !.updated_at = t]]

\* update_entry_to_index that stamps created_at as well
update_entry_to_index_recreated(idx, entry_id, new_text, t) ==
    IF entry_id \notin DOMAIN idx.entries
    THEN [status |-> "KeyError", index |-> idx]
    ELSE [status |-> "ok",
          index  |-> [idx EXCEPT !.entries[entry_id].text = new_text,
                                 !.entries[entry_id].created_at = t,
                                 !.entries[entry_id].updated_at = t,
                                 !.updated_at = t]]

update_entry_to_index(idx, entry_id, new_text, t) ==
    IF entry_id \notin DOMAIN idx.entries
    THEN [status |-> "KeyError", index |-> idx]
    ELSE [status |-> "ok",
          index  |-> [idx EXCEPT !.entries[entry_id].text = new_text,
                                 !.entries[entry_id].updated_at = t,
                                 !.updated_at = t]]

\* ids in ascending order, the order in which the entries were recorded
RECURSIVE SortedSeq(_)
SortedSeq(S) ==
    IF S = {} THEN << >> ELSE <<Min(S)>> \o SortedSeq(S \ {Min(S)})

\* the entries of a section with a given text, in insertion order, and the
\* occurrence_index-th of them: "none" when nothing matches, "ValueError"
\* when occurrence_index is beyond the matches
find_entry_by_text(idx, old_text, section_path, occurrence_index) ==
    LET matches == SortedSeq({e \in DOMAIN idx.entries :
                                 /\ idx.entries[e].section_path = section_path
                                 /\ idx.entries[e].text = old_text})
    IN  IF matches = << >> THEN [status |-> "none", entry_id |-> 0]
        ELSE IF occurrence_index >= Len(matches)
             THEN [status |-> "ValueError", entry_id |-> 0]
        ELSE [status |-> "ok", entry_id |-> matches[occurrence_index + 1]]

-----------------------------------------------------------------------------
(* Template initialisation *)

FullName == "Jane Doe"
Year == "2025"

\* full names, as token sequences
FullNames == {<<FullName>>, <<"Max", " ", "Example">>}

Contains(text, tok) == \E k \in 1..Len(text) : text[k] = tok

\* str.lower() of a token
Lower(tok) == IF tok = "Example" THEN "example" ELSE tok

\* "example" in text.strip().lower()
HasExample(text) == \E k \in 1..Len(text) : Lower(text[k]) = "example"

\* the test that makes a paragraph the title paragraph
IsTitlePlaceholder(text) ==
    \/ Contains(text, "<Full Name>")
    \/ Contains(text, "<Year>")
    \/ /\ Contains(text, "Brag Document")
       /\ Contains(text, "<Full Name>") \/ Contains(text, "<Year>")
          \/ Contains(text, "Full Name")

\* f"Brag Document - {full_name} ({year})"
TitleText(name) ==
    <<"Brag Document", " ", "-", " ">> \o name \o <<" ", "(", Year, ")">>

\* the paragraphs kept by the removal loop
RECURSIVE RemoveExamples(_)
RemoveExamples(d) ==
    IF d = << >> THEN << >>
    ELSE IF Strip(ParaText(Head(d))) # << >> /\ HasExample(ParaText(Head(d)))
         THEN RemoveExamples(Tail(d))
         ELSE <<Head(d)>> \o RemoveExamples(Tail(d))

\* the paragraphs initialize_document_from_template saves when every step
\* of it succeeds
initialize_document_from_template(d, name) ==
    LET titles == {i \in 0..MinInt(5, Len(d)) - 1 :
                      IsTitlePlaceholder(ParaText(Para(d, i)))}
        titled == IF titles = {} THEN d
                  ELSE [d EXCEPT ![Min(titles) + 1].runs =
                           <<[text |-> TitleText(name), bold |-> FALSE]>>]
    IN  RemoveExamples(titled)

\* how a call of initialize_document_from_template ends:
\*   "ok"      every step succeeds and the document is saved;
\*   "skipped" the document cannot be opened after the style fix and the
\*             function returns without initialising;
\*   "raised"  a step before doc.save raises, the file is untouched;
\*   "save"    doc.save raises, the file is left partly written
InitOutcomes == {"ok", "skipped", "raised", "save"}

\* what a save that stops midway can leave: nothing, the first paragraph,
\* or all but the last paragraph of what it was writing
PartialSaves(d, name) ==
    LET full == initialize_document_from_template(d, name)
    IN  {<< >>} \cup
        {SubSeq(full, 1, n) : n \in {1, Len(full) - 1} \cap 0..Len(full) - 1}

\* the partial saves that go with an outcome: only a failed save has one
PartialsOf(d, name, init) ==
    IF init = "save" THEN PartialSaves(d, name) ELSE {<< >>}

\* the document file after the call, and whether the call raised
InitializeOutcome(d, name, init, partial) ==
    CASE init = "ok" ->
            [raised |-> FALSE,
             doc    |-> initialize_document_from_template(d, name)]
      [] init = "skipped" -> [raised |-> FALSE, doc |-> d]
      [] init = "raised"  -> [raised |-> TRUE, doc |-> d]
      [] init = "save"    -> [raised |-> TRUE, doc |-> partial]

\* the handler that leaves the document as the failed initialisation left it
RestoreFromBackup_skipped(exists, backup, d) == d

\* the exception handler of create_brag_document: the document file once
\* the backup, if it exists, is copied over it
RestoreFromBackup(exists, backup, d) == IF exists THEN backup ELSE d

-----------------------------------------------------------------------------
(* Documents and inputs of the model *)

Heading(name) ==
    [style |-> <<"Heading", " ", "1">>,
     runs  |-> <<[text |-> name, bold |-> FALSE]>>, eid |-> 0]

BoldPara(name) ==
    [style |-> <<"Normal">>,
     runs  |-> <<[text |-> name, bold |-> TRUE]>>, eid |-> 0]

Body(text) ==
    [style |-> <<"Normal">>,
     runs  |-> <<[text |-> text, bold |-> FALSE]>>, eid |-> 0]

Blank == Body(<<" ">>)

Palette ==
    {Heading(<<"Projects", " ">>), Heading(GoalsNextYear),
     Heading(GoalsNextYearOptional), BoldPara(<<"Articles">>),
     Body(<<"did", " ", "x">>), Blank}

AllDocs == UNION {[1..n -> Palette] : n \in 0..MaxDocLen}

Template1 ==
    << [style |-> <<"Title">>,
        runs  |-> <<[text |-> <<"Brag Document", " ", "-", " ">>, bold |-> TRUE],
                    [text |-> <<"<Full Name>", " ", "(", "<Year>", ")">>,
                     bold |-> FALSE]>>,
        eid   |-> 0],
       Heading(GoalsNextYearOptional),
       Body(<<BulletGlyph, " ", "Example", " ", "goal">>),
       Heading(<<"Projects">>),
       Heading(<<"Outside of work">>),
       BoldPara(<<"Articles">>),
       Blank,
       BoldPara(<<"Talks">>) >>

Templates == {Template1}

\* the paragraphs a template has after its title: a section heading, an
\* example entry, an entry that is no example, a blank line
TemplatePalette ==
    {Heading(<<"Projects">>),
     Body(<<BulletGlyph, " ", "Example", " ", "goal">>),
     Body(<<BulletGlyph, " ", "did", " ", "x">>),
     Blank}

\* the title paragraph with its placeholders, then up to MaxTemplateLen
\* paragraphs
AllTemplates ==
    {<<Template1[1]>> \o body :
        body \in UNION {[1..n -> TemplatePalette] : n \in 0..MaxTemplateLen}}

Texts == {<<"did", " ", "x">>, <<"did", " ", "y">>}

\* a position beyond every document of the model, in both directions
FarPosition == 4 * (MaxDocLen + MaxEntries)

Positions ==
    {<< >>, <<0>>, <<1>>, <<0 - 1>>, <<0 - 2>>, <<FarPosition>>,
     <<0 - FarPosition>>}

Paths ==
    {<<"Projects">>, GoalsNextYear, GoalsNextYearOptional,
     <<"Projects", " ", "/", " ", "Articles">>}

Times == {t \in clock..clock + 1 : t <= MaxClock}

-----------------------------------------------------------------------------
(* Tool calls *)

\* a call and what it returned: status is "created", "exists", "ok" or
\* "error"; by tells how update_entry was given its entry, old_text and
\* occurrence_index are the arguments of its lookup by text, init how the
\* initialisation of a created document ended
Result(op, status, error, entry_id, section_path, text, position, paragraph_index, range) ==
    [op |-> op, status |-> status, error |-> error, entry_id |-> entry_id,
     section_path |-> section_path, text |-> text, position |-> position,
     paragraph_index |-> paragraph_index, range |-> range, by |-> "",
     old_text |-> << >>, occurrence_index |-> 0, init |-> ""]

NoCall == Result("none", "none", "", 0, << >>, << >>, << >>, 0, << >>)

\* init is the way the initialisation ends and partial what a failed save
\* leaves; the template is copied to the document, the document to the
\* backup, and the backup is removed on both ways out of the initialisation
create_brag_document(init, partial, t) ==
    /\ clock' = IF (doc_exists \/ template_exists) /\ ~index_exists
                THEN t ELSE clock
    /\ UNCHANGED <<full_name, template_exists, template, next_id, updates,
                   calls>>
    /\ IF doc_exists
       THEN /\ index_exists' = TRUE
            /\ index' = ensure_index_file(index_exists, index, t)
            /\ UNCHANGED <<doc_exists, doc, backup_exists>>
            /\ last' = Result("create_brag_document", "exists", "", 0,
                              << >>, << >>, << >>, 0, << >>)
       ELSE IF ~template_exists
       THEN /\ UNCHANGED <<doc_exists, doc, backup_exists, index_exists,
                           index>>
            /\ last' = Result("create_brag_document", "error",
                              "Template not found", 0,
                              << >>, << >>, << >>, 0, << >>)
       ELSE LET copied == template
                backup == copied
                r      == InitializeOutcome(copied, full_name, init, partial)
            IN  /\ doc_exists' = TRUE
                /\ doc' = IF r.raised
                          THEN RestoreFromBackup(TRUE, backup, r.doc)
                          ELSE r.doc
                /\ backup_exists' = FALSE
                /\ index_exists' = TRUE
                /\ index' = ensure_index_file(index_exists, index, t)
                /\ last' = [Result("create_brag_document", "created", "", 0,
                                   << >>, << >>, << >>, 0, << >>)
                               EXCEPT !.init = init]

\* how the index file answers during a call: "ok", "unreadable" (every
\* open for reading raises) or "unwritable" (every open for writing raises,
\* the file is left as it was)
IndexIO == {"ok", "unreadable", "unwritable"}

\* index_io is the way the index file answers during the call
add_entry(section_path, text, position, index_io, t) ==
    /\ next_id <= MaxEntries
    /\ UNCHANGED <<full_name, template_exists, template, doc_exists,
                   backup_exists, updates, calls>>
    /\ IF ~doc_exists
       THEN /\ UNCHANGED <<doc, index_exists, index, next_id, clock>>
            /\ last' = Result("add_entry", "error", "Document not found", 0,
                              section_path, text, position, 0, << >>)
       ELSE IF ~index_exists /\ index_io = "unwritable"
       THEN /\ UNCHANGED <<doc, index_exists, index, next_id, clock>>
            /\ last' = Result("add_entry", "error", "Failed to add entry", 0,
                              section_path, text, position, 0, << >>)
       ELSE LET idx0     == ensure_index_file(index_exists, index, t)
                entry_id == generate_entry_id(next_id)
                r        == add_entry_to_document(doc, section_path, text,
                                                  position, entry_id)
            IN  /\ index_exists' = TRUE
                /\ next_id' = next_id + 1
                /\ doc' = r.doc
                /\ clock' = IF \/ ~index_exists
                               \/ r.status = "ok" /\ index_io # "unreadable"
                            THEN t ELSE clock
                /\ IF r.status = "ok" /\ index_io = "ok"
                   THEN /\ index' = add_entry_to_index(idx0, entry_id,
                                        section_path, text,
                                        r.paragraph_index, t)
                        /\ last' = Result("add_entry", "ok", "", entry_id,
                                          section_path, text, position,
                                          r.paragraph_index, << >>)
                   ELSE IF r.status = "ok"
                   THEN /\ index' = idx0
                        /\ last' = Result("add_entry", "error",
                                          "Failed to add entry", 0,
                                          section_path, text, position,
                                          0, << >>)
                   ELSE /\ index' = idx0
                        /\ last' = Result("add_entry", "error", r.status, 0,
                                          section_path, text, position,
                                          0, << >>)

\* update_entry that reports every failed lookup by text as "not found"
TextLookupError_conflated(status) == "Entry not found with text"

\* the error update_entry returns when find_entry_by_text gave no entry:
\* None is reported as "not found", a ValueError by its own message
TextLookupError(status) ==
    IF status = "none" THEN "Entry not found with text" ELSE "ValueError"

\* entry_id, old_text and section_path are Optional: << >> is None
update_entry(new_text, entry_id, old_text, section_path, occurrence_index, t) ==
    LET by == IF entry_id # << >> THEN "entry_id" ELSE "text"
        Error(e) ==
            [Result("update_entry", "error", e,
                    IF entry_id = << >> THEN 0 ELSE entry_id[1],
                    section_path, new_text, << >>, 0, << >>)
                EXCEPT !.by = by, !.old_text = old_text,
                       !.occurrence_index = occurrence_index]
        found == find_entry_by_text(index, old_text, section_path,
                                    occurrence_index)
    IN
    /\ updates < MaxUpdates
    /\ updates' = updates + 1
    /\ UNCHANGED <<full_name, template_exists, template, doc_exists,
                   backup_exists, index_exists, next_id, calls>>
    /\ IF ~doc_exists
       THEN /\ UNCHANGED <<doc, index>>
            /\ last' = Error("Document not found")
       ELSE IF ~index_exists
       THEN /\ UNCHANGED <<doc, index>>
            /\ last' = Error("Index file not found")
       ELSE IF entry_id = << >> /\ (old_text = << >> \/ section_path = << >>)
       THEN /\ UNCHANGED <<doc, index>>
            /\ last' = Error("Either entry_id or (old_text + section_path)")
       ELSE IF entry_id = << >> /\ found.status # "ok"
       THEN /\ UNCHANGED <<doc, index>>
            /\ last' = Error(TextLookupError(found.status))
       ELSE LET resolved_entry_id ==
                    IF entry_id # << >> THEN entry_id[1] ELSE found.entry_id
            IN  IF resolved_entry_id \notin DOMAIN index.entries
                THEN /\ UNCHANGED <<doc, index>>
                     /\ last' = Error("Entry with ID not found")
                ELSE LET entry_data == index.entries[resolved_entry_id]
                         rd == update_entry_to_document(
                                   doc, entry_data.paragraph_index, new_text)
                         ri == update_entry_to_index(
                                   index, resolved_entry_id, new_text, t)
                     IN  IF rd.status # "ok"
                         THEN /\ UNCHANGED <<doc, index>>
                              /\ last' = Error("Document structure issue")
                         ELSE /\ doc' = rd.doc
                              /\ index' = ri.index
                              /\ last' =
                                     [Result("update_entry", "ok", "",
                                         resolved_entry_id,
                                         entry_data.section_path, new_text,
                                         << >>, entry_data.paragraph_index,
                                         << >>)
                                        EXCEPT !.by = by,
                                               !.old_text = old_text,
                                               !.occurrence_index =
                                                   occurrence_index]
    /\ clock' = IF last'.status = "ok" THEN t ELSE clock

\* the callers whose add_entry calls run step by step
Procs == {1, 2}

\* an add_entry call in progress: where it stands, its arguments, the
\* identifier it generated, the document and the index it loaded, the
\* index it inserted at
IdleCall ==
    [pc |-> "idle", section_path |-> << >>, text |-> << >>,
     position |-> << >>, entry_id |-> 0, doc |-> << >>,
     index |-> EmptyIndex(0), paragraph_index |-> 0, status |-> ""]

NoCalls == [p \in Procs |-> IdleCall]

\* add_entry up to the document load: the document exists, the index file
\* is ensured, the identifier generated
add_entry_begin(p, section_path, text, position, t) ==
    /\ calls[p].pc = "idle"
    /\ doc_exists
    /\ index_exists' = TRUE
    /\ index' = ensure_index_file(index_exists, index, t)
    /\ clock' = IF index_exists THEN clock ELSE t
    /\ next_id' = next_id + 1
    /\ calls' = [calls EXCEPT ![p] =
                    [IdleCall EXCEPT !.pc = "doc_load",
                                     !.section_path = section_path,
                                     !.text = text,
                                     !.position = position,
                                     !.entry_id = generate_entry_id(next_id)]]
    /\ UNCHANGED <<full_name, template_exists, template, doc_exists, doc,
                   backup_exists, updates, last>>

\* add_entry_to_document: Document(str(doc_path))
add_entry_doc_load(p) ==
    /\ calls[p].pc = "doc_load"
    /\ calls' = [calls EXCEPT ![p].pc = "doc_save", ![p].doc = doc]
    /\ UNCHANGED <<full_name, template_exists, template, doc_exists, doc,
                   backup_exists, index_exists, index, clock, next_id,
                   updates, last>>

\* add_entry_to_document: the insertion into the loaded document and
\* doc.save(str(doc_path))
add_entry_doc_save(p) ==
    /\ calls[p].pc = "doc_save"
    /\ LET c == calls[p]
           r == add_entry_to_document(c.doc, c.section_path, c.text,
                                      c.position, c.entry_id)
       IN  IF r.status = "ok"
           THEN /\ doc' = r.doc
                /\ calls' = [calls EXCEPT ![p].pc = "index_load",
                                          ![p].paragraph_index =
                                              r.paragraph_index]
                /\ last' = last
           ELSE /\ doc' = doc
                /\ calls' = [calls EXCEPT ![p].pc = "done",
                                          ![p].status = "error"]
                /\ last' = Result("add_entry", "error", r.status, 0,
                                  c.section_path, c.text, c.position,
                                  0, << >>)
    /\ UNCHANGED <<full_name, template_exists, template, doc_exists,
                   backup_exists, index_exists, index, clock, next_id,
                   updates>>

\* add_entry_to_index: load_index(index_path)
add_entry_index_load(p) ==
    /\ calls[p].pc = "index_load"
    /\ calls' = [calls EXCEPT ![p].pc = "index_save", ![p].index = index]
    /\ UNCHANGED <<full_name, template_exists, template, doc_exists, doc,
                   backup_exists, index_exists, index, clock, next_id,
                   updates, last>>

\* add_entry_to_index: the record added to the loaded index and
\* save_index(index_path, index_data); add_entry returns its result
add_entry_index_save(p, t) ==
    /\ calls[p].pc = "index_save"
    /\ LET c == calls[p]
       IN  /\ index' = add_entry_to_index(c.index, c.entry_id,
                                          c.section_path, c.text,
                                          c.paragraph_index, t)
           /\ last' = Result("add_entry", "ok", "", c.entry_id,
                             c.section_path, c.text, c.position,
                             c.paragraph_index, << >>)
    /\ clock' = t
    /\ calls' = [calls EXCEPT ![p].pc = "done", ![p].status = "ok"]
    /\ UNCHANGED <<full_name, template_exists, template, doc_exists, doc,
                   backup_exists, index_exists, next_id, updates>>

\* the section locator applied to the document as it is
locate(section_path) ==
    /\ last' = Result("locate", "ok", "", 0, section_path, << >>, << >>, 0,
                      find_section_paragraph(doc, section_path))
    /\ UNCHANGED <<full_name, template_exists, template, doc_exists, doc,
                   backup_exists, index_exists, index, clock, next_id,
                   updates, calls>>

-----------------------------------------------------------------------------
(* Specifications *)

\* the program from an empty workspace that may hold the template; the
\* initialisation of a created document succeeds (SpecTemplates has the
\* other ways it ends)
Init ==
    /\ full_name = <<FullName>>
    /\ template_exists \in BOOLEAN
    /\ template \in Templates
    /\ doc_exists = FALSE
    /\ doc = << >>
    /\ backup_exists = FALSE
    /\ index_exists = FALSE
    /\ index = EmptyIndex(0)
    /\ clock = 0
    /\ next_id = 1
    /\ updates = 0
    /\ last = NoCall
    /\ calls = NoCalls

EntryIds == 1..MaxEntries

\* the add_entry calls of Spec, as <<section_path, text, position>>: an
\* append, an insert at the head of the same section, an append to a nested
\* section, and a section the template does not have
AddCalls ==
    {<<<<"Projects">>, <<"did", " ", "x">>, << >>>>,
     <<<<"Projects">>, <<"did", " ", "y">>, <<0>>>>,
     <<<<"Outside of work", " ", "/", " ", "Articles">>, <<"did", " ", "x">>,
       << >>>>,
     <<<<"Documentation">>, <<"did", " ", "x">>, << >>>>}

Next ==
    \/ \E t \in Times : create_brag_document("ok", << >>, t)
    \/ \E call \in AddCalls, t \in Times :
          add_entry(call[1], call[2], call[3], "ok", t)
    \/ \E new_text \in Texts, entry_id \in {<<e>> : e \in EntryIds},
          t \in Times :
          update_entry(new_text, entry_id, << >>, << >>, 0, t)
    \/ \E old_text \in Texts \cup {<< >>}, occurrence_index \in 0..1,
          t \in Times :
          update_entry(<<"did", " ", "z">>, << >>, old_text, <<"Projects">>,
                       occurrence_index, t)

Spec == Init /\ [][Next]_vars

\* any document of the bounded set, already on disk without an index, and
\* one call on it: the locator, or add_entry
InitDocs ==
    /\ full_name = <<FullName>>
    /\ template_exists = TRUE
    /\ template = Template1
    /\ doc_exists = TRUE
    /\ doc \in AllDocs
    /\ backup_exists = FALSE
    /\ index_exists = FALSE
    /\ index = EmptyIndex(0)
    /\ clock = MaxClock
    /\ next_id = 1
    /\ updates = 0
    /\ last = NoCall
    /\ calls = NoCalls

NextDocs ==
    \/ \E section_path \in Paths : last = NoCall /\ locate(section_path)
    \/ \E section_path \in Paths, position \in Positions, t \in Times :
          last = NoCall /\ add_entry(section_path, <<"did", " ", "y">>,
                                     position, "ok", t)

SpecDocs == InitDocs /\ [][NextDocs]_vars

\* a short document on disk without an index, add_entry at any position of
\* its section and update_entry by identifier
EntryDocs ==
    {<<Heading(<<"Projects">>)>>,
     <<Heading(<<"Projects">>), Body(<<"did", " ", "x">>)>>}

InitEntries ==
    /\ full_name = <<FullName>>
    /\ template_exists = TRUE
    /\ template = Template1
    /\ doc_exists = TRUE
    /\ doc \in EntryDocs
    /\ backup_exists = FALSE
    /\ index_exists = FALSE
    /\ index = EmptyIndex(0)
    /\ clock = 0
    /\ next_id = 1
    /\ updates = 0
    /\ last = NoCall
    /\ calls = NoCalls

NextEntries ==
    \/ \E position \in Positions, t \in Times :
          add_entry(<<"Projects">>, <<"did", " ", "y">>, position, "ok", t)
    \/ \E new_text \in Texts, entry_id \in {<<e>> : e \in EntryIds},
          t \in Times :
          update_entry(new_text, entry_id, << >>, << >>, 0, t)

SpecEntries == InitEntries /\ [][NextEntries]_vars

\* a short document on disk without an index, and add_entry calls during
\* which the index file may be unreadable or unwritable
InitIndexIO == InitEntries

NextIndexIO ==
    \E text \in Texts, position \in {<< >>, <<0>>}, index_io \in IndexIO,
       t \in Times :
       add_entry(<<"Projects">>, text, position, index_io, t)

SpecIndexIO == InitIndexIO /\ [][NextIndexIO]_vars

\* a short document on disk with the index create_brag_document left, and
\* one add_entry call of each caller, their file reads and writes
\* interleaved
InitRace ==
    /\ full_name = <<FullName>>
    /\ template_exists = TRUE
    /\ template = Template1
    /\ doc_exists = TRUE
    /\ doc \in EntryDocs
    /\ backup_exists = FALSE
    /\ index_exists = TRUE
    /\ index = EmptyIndex(0)
    /\ clock = 0
    /\ next_id = 1
    /\ updates = 0
    /\ last = NoCall
    /\ calls = NoCalls

NextRace ==
    \/ \E p \in Procs, text \in Texts, position \in {<< >>, <<0>>},
          t \in Times :
          add_entry_begin(p, <<"Projects">>, text, position, t)
    \/ \E p \in Procs : add_entry_doc_load(p)
    \/ \E p \in Procs : add_entry_doc_save(p)
    \/ \E p \in Procs : add_entry_index_load(p)
    \/ \E p \in Procs, t \in Times : add_entry_index_save(p, t)

SpecRace == InitRace /\ [][NextRace]_vars

\* any template of the bounded set and any full name, no document yet, and
\* create_brag_document calls
InitTemplates ==
    /\ full_name \in FullNames
    /\ template_exists = TRUE
    /\ template \in AllTemplates
    /\ doc_exists = FALSE
    /\ doc = << >>
    /\ backup_exists = FALSE
    /\ index_exists = FALSE
    /\ index = EmptyIndex(0)
    /\ clock = 0
    /\ next_id = 1
    /\ updates = 0
    /\ last = NoCall
    /\ calls = NoCalls

NextTemplates ==
    \E init \in InitOutcomes :
       \E partial \in PartialsOf(template, full_name, init), t \in Times :
          create_brag_document(init, partial, t)

SpecTemplates == InitTemplates /\ [][NextTemplates]_vars

-----------------------------------------------------------------------------
(* Vocabulary of the properties *)

TopLevelNames == {top_level_sections[k] : k \in 1..Len(top_level_sections)}

\* the stripped text of paragraph i of d
TextAt(d, i) == Strip(ParaText(Para(d, i)))

IsHeadingAt(d, i) == is_heading_paragraph(Para(d, i))

\* the indices of the heading paragraphs of d whose text is name
HeadingsNamed(d, name) ==
    {i \in 0..Len(d) - 1 : IsHeadingAt(d, i) /\ TextAt(d, i) = name}

\* a locate call on a top-level name of the vocabulary has returned
LocatedTopLevel ==
    /\ last.op = "locate"
    /\ last.section_path \in TopLevelNames

\* end is the index of a heading paragraph or the document length
EndsAtHeadingOrLength(d, e) ==
    e = Len(d) \/ (e >= 0 /\ e < Len(d) /\ IsHeadingAt(d, e))

-----------------------------------------------------------------------------
(* C6 *)

\* C6, as stated: for every top-level name of the vocabulary, if a heading
\* paragraph with that text exists the locator returns (start, end) with
\* start = (index of the first such heading) + 1, start <= end and end the
\* index of a heading paragraph or the document length; if no such heading
\* exists it returns None.
C6_AsStated ==
    LocatedTopLevel =>
        LET hs == HeadingsNamed(doc, last.section_path)
        IN  IF hs = {} THEN last.range = << >>
            ELSE /\ last.range # << >>
                 /\ last.range[1] = Min(hs) + 1
                 /\ last.range[1] <= last.range[2]
                 /\ EndsAtHeadingOrLength(doc, last.range[2])

\* the headings a top-level name stands for: those with its text and, for
\* "Goals for next year", those with the text of its alias
HeadingsNamedOrAlias(d, name) ==
    HeadingsNamed(d, name)
        \cup (IF name = GoalsNextYear
              THEN HeadingsNamed(d, GoalsNextYearOptional) ELSE {})

\* C6, amended: for every top-level name of the vocabulary, if a heading
\* paragraph exists whose text is the name (or, for "Goals for next year",
\* its alias "Goals for next year (optional)"), the locator returns
\* (start, end) with start = (index of the first such heading) + 1,
\* start <= end and end the index of a heading paragraph or the document
\* length; if no such heading exists it returns None.
C6_LocateTopLevel ==
    LocatedTopLevel =>
        LET hs == HeadingsNamedOrAlias(doc, last.section_path)
        IN  IF hs = {} THEN last.range = << >>
            ELSE /\ last.range # << >>
                 /\ last.range[1] = Min(hs) + 1
                 /\ last.range[1] <= last.range[2]
                 /\ EndsAtHeadingOrLength(doc, last.range[2])

\* "Goals for next year" located through a second heading that follows the
\* alias heading, with another section after it
C6_Witness ==
    /\ LocatedTopLevel
    /\ last.section_path = GoalsNextYear
    /\ HeadingsNamed(doc, GoalsNextYear) # {}
    /\ HeadingsNamed(doc, GoalsNextYearOptional) # {}
    /\ last.range # << >>
    /\ last.range[1] < last.range[2]
    /\ last.range[2] < Len(doc)

-----------------------------------------------------------------------------
(* C7 *)

\* C7: for a top-level section whose heading is at index i, the end the
\* locator returns is the smallest index j > i of a heading paragraph whose
\* text is another name of the top-level vocabulary, or the document length
\* if there is none, whatever the order of the headings in the document.
C7_EndIsNearestOtherSection ==
    (LocatedTopLevel /\ last.range # << >>) =>
        LET i  == last.range[1] - 1
            js == {j \in i + 1..Len(doc) - 1 :
                      /\ IsHeadingAt(doc, j)
                      /\ TextAt(doc, j) \in
                             TopLevelNames \ {last.section_path}}
        IN  last.range[2] = IF js = {} THEN Len(doc) ELSE Min(js)

-----------------------------------------------------------------------------
(* C8 *)

\* C8: whenever the document holds a heading whose text is "Goals for next
\* year" or "Goals for next year (optional)", the locator resolves both
\* paths, and to the same range.
C8_AliasEquivalence ==
    (/\ last.op = "locate"
     /\ last.section_path \in {GoalsNextYear, GoalsNextYearOptional}
     /\ HeadingsNamed(doc, GoalsNextYear)
            \cup HeadingsNamed(doc, GoalsNextYearOptional) # {}) =>
        /\ last.range # << >>
        /\ find_section_paragraph(doc, GoalsNextYear) = last.range
        /\ find_section_paragraph(doc, GoalsNextYearOptional) = last.range

-----------------------------------------------------------------------------
(* C9 *)

Aliases(a, b) == {a, b} = {GoalsNextYear, GoalsNextYearOptional}

\* C9: for two different top-level names that are not aliases of each other
\* and both resolve, the ranges the locator returns are disjoint and neither
\* contains the heading paragraph of the other section.
C9_RangesDisjoint ==
    (LocatedTopLevel /\ last.range # << >>) =>
        \A b \in TopLevelNames :
            LET rb == find_section_paragraph(doc, b)
                ra == last.range
            IN  (b # last.section_path /\ ~Aliases(last.section_path, b)
                 /\ rb # << >>) =>
                    /\ (ra[1]..ra[2] - 1) \cap (rb[1]..rb[2] - 1) = {}
                    /\ rb[1] - 1 \notin ra[1]..ra[2] - 1
                    /\ ra[1] - 1 \notin rb[1]..rb[2] - 1

-----------------------------------------------------------------------------
(* Steps of add_entry and update_entry *)

\* the step is an add_entry call that got as far as generating an identifier
AddAttempt == last'.op = "add_entry" /\ next_id' = next_id + 1

\* the step is a successful add_entry call
AddedOk == AddAttempt /\ last'.status = "ok"

\* the step is a successful update_entry call
UpdatedOk ==
    last'.op = "update_entry" /\ updates' = updates + 1 /\ last'.status = "ok"

\* the indices of the paragraphs of d inserted for entry e
ParagraphsOf(d, e) == {i \in 0..Len(d) - 1 : Para(d, i).eid = e}

IsBlankAt(d, i) == TextAt(d, i) = << >>

-----------------------------------------------------------------------------
(* C1 *)

\* C1: after any sequence of successful add_entry and update_entry calls, a
\* successful update_entry that targets entry E by its entry_id rewrites the
\* text in both places: the index record of E has the new text, and the
\* paragraph that was inserted for E, and no other paragraph, has the bullet
\* followed by the new text.
C1_UpdateRewritesBothPlaces ==
    [][(UpdatedOk /\ last'.by = "entry_id") =>
          LET e == last'.entry_id
          IN  /\ index'.entries[e].text = last'.text
              /\ Len(doc') = Len(doc)
              /\ ParagraphsOf(doc', e) # {}
              /\ \A i \in 0..Len(doc) - 1 :
                     IF Para(doc, i).eid = e
                     THEN ParaText(Para(doc', i)) = Bullet(last'.text)
                     ELSE Para(doc', i) = Para(doc, i)]_vars

-----------------------------------------------------------------------------
(* C2 *)

\* the places (section, position in its entry_ids) that list entry e
ListingsOf(idx, e) ==
    {pl \in UNION {{<<sp, k>> : k \in 1..Len(idx.sections[sp].entry_ids)} :
                      sp \in DOMAIN idx.sections} :
        idx.sections[pl[1]].entry_ids[pl[2]] = e}

\* C2: in every index reached by create, add_entry and update_entry calls,
\* each entry_id listed in a section's entry_ids is a key of entries and that
\* entry's section_path is the section's key; each key of entries is listed
\* exactly once, in exactly one section.
C2_IndexConsistent ==
    index_exists =>
        /\ \A sp \in DOMAIN index.sections :
               \A k \in 1..Len(index.sections[sp].entry_ids) :
                  LET e == index.sections[sp].entry_ids[k]
                  IN  /\ e \in DOMAIN index.entries
                      /\ index.entries[e].section_path = sp
        /\ \A e \in DOMAIN index.entries :
               Cardinality(ListingsOf(index, e)) = 1

\* two entries in two sections, one of them updated since
C2_Witness ==
    /\ index_exists
    /\ Cardinality(DOMAIN index.entries) = 2
    /\ Cardinality(DOMAIN index.sections) = 2
    /\ last.op = "update_entry" /\ last.status = "ok"

-----------------------------------------------------------------------------
(* C3 *)

\* C3: for a resolvable section path with range (start, end), add_entry with
\* position None puts the new paragraph one past the last non-blank paragraph
\* of [start, end), or at start when there is none; with position 0 it puts
\* it at start, right after the section heading.
C3_InsertionPoint ==
    [][(AddedOk /\ last'.position \in {<< >>, <<0>>}) =>
          LET r        == find_section_paragraph(doc, last'.section_path)
              nonblank == {i \in r[1]..r[2] - 1 : ~IsBlankAt(doc, i)}
              k        == IF last'.position = << >> /\ nonblank # {}
                          THEN Max(nonblank) + 1 ELSE r[1]
          IN  /\ r # << >>
              /\ ParagraphsOf(doc', last'.entry_id) = {k}
              /\ ParaText(Para(doc', k)) = Bullet(last'.text)
              /\ last'.paragraph_index = k]_vars

\* an entry appended before the trailing blank paragraph of its section
C3_Witness ==
    /\ last.op = "add_entry" /\ last.status = "ok"
    /\ last.position = << >>
    /\ last.paragraph_index >= 2
    /\ last.paragraph_index + 1 < Len(doc)
    /\ ~IsBlankAt(doc, last.paragraph_index - 1)
    /\ ~IsHeadingAt(doc, last.paragraph_index - 1)
    /\ IsBlankAt(doc, last.paragraph_index + 1)
    /\ Para(doc, last.paragraph_index).eid = last.entry_id

-----------------------------------------------------------------------------
(* C4 *)

\* C4: with position set, for every integer position (negative and larger
\* than the section included) add_entry on a resolvable section succeeds and
\* the new paragraph ends up at min(start + position, end) clamped into the
\* section: at an index k with start <= k <= end.
C4_PositionClamped ==
    [][(/\ AddAttempt
        /\ last'.position # << >>
        /\ find_section_paragraph(doc, last'.section_path) # << >>) =>
          LET r == find_section_paragraph(doc, last'.section_path)
          IN  /\ last'.status = "ok"
              /\ \E k \in r[1]..r[2] :
                     ParagraphsOf(doc', last'.entry_id) = {k}]_vars

-----------------------------------------------------------------------------
(* C5 *)

\* C5: a successful add_entry_to_document that returns k leaves exactly one
\* more paragraph; paragraph k has the bullet text; the paragraphs that were
\* before k are unchanged in place and those at or after k are unchanged one
\* index further.
C5_InsertFrame ==
    [][AddedOk =>
          LET k == last'.paragraph_index
          IN  /\ Len(doc') = Len(doc) + 1
              /\ k \in 0..Len(doc)
              /\ ParaText(Para(doc', k)) = Bullet(last'.text)
              /\ \A i \in 0..Len(doc) - 1 :
                     IF i < k THEN Para(doc', i) = Para(doc, i)
                     ELSE Para(doc', i + 1) = Para(doc, i)]_vars

-----------------------------------------------------------------------------
(* C10 *)

\* C10: after a successful add_entry to a nested path (any position), the
\* locator applied to the resulting document returns for that path a range
\* that contains the inserted paragraph and no heading paragraph; if the
\* subsection held no non-blank paragraph before, the inserted paragraph is
\* the only non-blank paragraph of the range.
C10_NestedInsertStaysInside ==
    [][(AddedOk /\ NestedSection(last'.section_path) # << >>) =>
          LET before == find_section_paragraph(doc, last'.section_path)
              r      == find_section_paragraph(doc', last'.section_path)
              mine   == ParagraphsOf(doc', last'.entry_id)
          IN  /\ r # << >>
              /\ mine # {}
              /\ mine \subseteq r[1]..r[2] - 1
              /\ \A i \in r[1]..r[2] - 1 : ~IsHeadingAt(doc', i)
              /\ (\A i \in before[1]..before[2] - 1 : IsBlankAt(doc, i)) =>
                     \A i \in r[1]..r[2] - 1 :
                        ~IsBlankAt(doc', i) => i \in mine]_vars

-----------------------------------------------------------------------------
(* C11 *)

\* the step is an update_entry call that looked its entry up by text
UpdateByText ==
    /\ last'.op = "update_entry" /\ updates' = updates + 1
    /\ last'.by = "text"
    /\ doc_exists /\ index_exists
    /\ last'.old_text # << >> /\ last'.section_path # << >>

\* the entries listed in section sp of idx whose text is text, in the order
\* in which the section lists them
RECURSIVE MatchesIn(_, _, _)
MatchesIn(idx, ids, text) ==
    IF ids = << >> THEN << >>
    ELSE (IF idx.entries[Head(ids)].text = text THEN <<Head(ids)>> ELSE << >>)
             \o MatchesIn(idx, Tail(ids), text)

MatchesOf(idx, sp, text) ==
    IF sp \in DOMAIN idx.sections
    THEN MatchesIn(idx, idx.sections[sp].entry_ids, text) ELSE << >>

-----------------------------------------------------------------------------
(* C12 *)

\* C12: create_brag_document on a (name, year) that has no document, the
\* template being present, returns "created" and leaves a document and an
\* index; every create_brag_document on a (name, year) that has its
\* document, also after add_entry and update_entry calls, returns "exists"
\* and leaves the paragraphs of the document and the sections and entries of
\* the index unchanged.
C12_CreateIdempotent ==
    [][last'.op = "create_brag_document" =>
          IF doc_exists
          THEN /\ last'.status = "exists"
               /\ doc_exists' /\ doc' = doc
               /\ index_exists'
               /\ index_exists =>
                      /\ index'.sections = index.sections
                      /\ index'.entries = index.entries
          ELSE template_exists =>
                  /\ last'.status = "created"
                  /\ doc_exists' /\ index_exists']_vars

\* create called again once two entries were added and one was updated
C12_Witness ==
    /\ last.op = "create_brag_document" /\ last.status = "exists"
    /\ updates = 1
    /\ Cardinality(DOMAIN index.entries) = 2
    /\ ParagraphsOf(doc, 1) # {} /\ ParagraphsOf(doc, 2) # {}

-----------------------------------------------------------------------------
(* C13 *)

\* the step is a create_brag_document call that created the document
CreatedStep ==
    /\ last'.op = "create_brag_document" /\ last'.status = "created"
    /\ ~doc_exists /\ doc_exists'

-----------------------------------------------------------------------------
(* C14 *)

\* the indices of the template paragraphs that hold the title placeholder
TitleIndices(d) ==
    {i \in 0..Len(d) - 1 : IsTitlePlaceholder(ParaText(Para(d, i)))}

\* the paragraphs of d from index k on, without paragraph i and without the
\* paragraphs that contain "example"
RECURSIVE KeptFrom(_, _, _)
KeptFrom(d, k, i) ==
    IF k >= Len(d) THEN << >>
    ELSE (IF k = i \/ HasExample(ParaText(Para(d, k)))
          THEN << >> ELSE <<Para(d, k)>>) \o KeptFrom(d, k + 1, i)

\* the paragraphs of d whose text is not text
RECURSIVE WithoutText(_, _)
WithoutText(d, text) ==
    IF d = << >> THEN << >>
    ELSE (IF ParaText(Head(d)) = text THEN << >> ELSE <<Head(d)>>)
             \o WithoutText(Tail(d), text)

\* C14: after create_brag_document created the document from the template
\* and its initialisation succeeded, for every full name: the paragraph that
\* held the title placeholder is present with the text "Brag Document -
\* <name> (<year>)", no paragraph contains "example", and every template
\* paragraph that neither contained "example" nor was the title is kept
\* unchanged, in the same relative order.
C14_InitializedDocument ==
    [][(CreatedStep /\ last'.init = "ok" /\ TitleIndices(template) # {}) =>
          LET i == Min(TitleIndices(template))
          IN  /\ \E k \in 0..Len(doc') - 1 :
                     /\ ParaText(Para(doc', k)) = TitleText(full_name)
                     /\ Para(doc', k).style = Para(template, i).style
              /\ \A k \in 0..Len(doc') - 1 :
                     ~HasExample(ParaText(Para(doc', k)))
              /\ WithoutText(doc', TitleText(full_name))
                     = KeptFrom(template, 0, i)]_vars

-----------------------------------------------------------------------------
(* C15 *)

\* the entry_ids a section of idx lists, none when idx has no such section
EntryIdsOf(idx, sp) ==
    IF sp \in DOMAIN idx.sections THEN idx.sections[sp].entry_ids ELSE << >>

\* C15: a successful add_entry changes the index only by adding one entry:
\* one new key of entries, an id that was not there, whose record has the
\* given section_path and text and the paragraph_index returned to the
\* caller; that id becomes the last element of the entry_ids of its section,
\* the section being created if absent; every entry recorded before, its
\* paragraph_index included, and every other section are unchanged.
C15_AddIndexFrame ==
    [][AddedOk =>
          LET e  == last'.entry_id
              sp == last'.section_path
          IN  /\ e \notin DOMAIN index.entries
              /\ DOMAIN index'.entries = DOMAIN index.entries \cup {e}
              /\ index'.entries[e].entry_id = e
              /\ index'.entries[e].section_path = sp
              /\ index'.entries[e].text = last'.text
              /\ index'.entries[e].paragraph_index = last'.paragraph_index
              /\ DOMAIN index'.sections = DOMAIN index.sections \cup {sp}
              /\ index'.sections[sp].entry_ids
                     = Append(EntryIdsOf(index, sp), e)
              /\ \A x \in DOMAIN index.entries :
                     index'.entries[x] = index.entries[x]
              /\ \A x \in DOMAIN index.sections \ {sp} :
                     index'.sections[x] = index.sections[x]]_vars

\* a second entry added to a section that listed one
C15_Witness ==
    /\ last.op = "add_entry" /\ last.status = "ok"
    /\ index_exists
    /\ last.section_path \in DOMAIN index.sections
    /\ Len(index.sections[last.section_path].entry_ids) = 2
    /\ index.sections[last.section_path].entry_ids[2] = last.entry_id
    /\ index.entries[last.entry_id].paragraph_index = last.paragraph_index

-----------------------------------------------------------------------------
(* C16 *)

\* C16: add_entry on a (name, year) that has no document, or with a section
\* path that does not resolve in the document, returns an error result,
\* does not create the document, leaves the paragraphs of the document
\* unchanged and adds no section and no entry to the index.
C16_AddRejected ==
    [][(/\ last'.op = "add_entry"
        /\ \/ ~doc_exists
           \/ find_section_paragraph(doc, last'.section_path) = << >>) =>
          /\ last'.status = "error"
          /\ last'.error # ""
          /\ doc_exists' = doc_exists
          /\ doc' = doc
          /\ index'.sections = index.sections
          /\ index'.entries = index.entries]_vars

\* add_entry refused for a section the document does not have, an entry
\* being recorded already
C16_Witness ==
    /\ last.op = "add_entry" /\ last.status = "error"
    /\ last.error = "ValueError"
    /\ doc_exists
    /\ find_section_paragraph(doc, last.section_path) = << >>
    /\ Cardinality(DOMAIN index.entries) = 1
    /\ ParagraphsOf(doc, 1) # {}

-----------------------------------------------------------------------------
(* C17 *)

\* the step is an update_entry call that got as far as resolving an entry
UpdateResolved ==
    /\ last'.op = "update_entry" /\ updates' = updates + 1
    /\ doc_exists /\ index_exists
    /\ \/ last'.by = "entry_id"
       \/ /\ UpdateByText
          /\ last'.occurrence_index
                 < Len(MatchesOf(index, last'.section_path, last'.old_text))

\* the entry_id that step resolved
ResolvedEntryId ==
    IF last'.by = "entry_id" THEN last'.entry_id
    ELSE MatchesOf(index, last'.section_path,
                   last'.old_text)[last'.occurrence_index + 1]

\* C17: update_entry returns an error result and changes neither the
\* document nor the index when (a) the resolved entry_id is not a key of
\* the entries of the index, and when (b) the paragraph_index recorded for
\* the entry is negative or not below the number of paragraphs of the
\* document.
C17_UpdateRejected ==
    [][(/\ UpdateResolved
        /\ \/ ResolvedEntryId \notin DOMAIN index.entries
           \/ index.entries[ResolvedEntryId].paragraph_index < 0
           \/ index.entries[ResolvedEntryId].paragraph_index >= Len(doc)) =>
          /\ last'.status = "error"
          /\ last'.error # ""
          /\ doc' = doc
          /\ index' = index]_vars

\* update_entry refused for an entry whose recorded paragraph_index is
\* negative
C17_Witness ==
    /\ last.op = "update_entry" /\ last.status = "error"
    /\ last.error = "Document structure issue"
    /\ last.entry_id \in DOMAIN index.entries
    /\ index.entries[last.entry_id].paragraph_index < 0
    /\ ParagraphsOf(doc, last.entry_id) # {}

-----------------------------------------------------------------------------
(* C18 *)

\* the step is a successful update_entry, by its identifier, of an entry
\* added under "Projects" to a document that create_brag_document made
RoundTripStep ==
    /\ UpdatedOk /\ last'.by = "entry_id"
    /\ last'.section_path = <<"Projects">>

\* C18, as stated: create, then add_entry with text T under "Projects",
\* then update_entry of that entry by its identifier to T2, all succeeding,
\* yields an index in which the text of the entry is T2 and its updated_at
\* is strictly later than its created_at.
C18_AsStated ==
    [][RoundTripStep =>
          LET e == last'.entry_id
          IN  /\ index'.entries[e].text = last'.text
              /\ index'.entries[e].updated_at
                     > index'.entries[e].created_at]_vars

\* C18, amended: create, then add_entry with text T under "Projects", then
\* update_entry of that entry by its identifier to T2, all succeeding,
\* yields an index in which the text of the entry is T2 and its updated_at
\* is the reading of the clock at the update, which is not earlier than its
\* created_at.
C18_RoundTrip ==
    [][RoundTripStep =>
          LET e == last'.entry_id
          IN  /\ index'.entries[e].text = last'.text
              /\ index'.entries[e].updated_at = clock'
              /\ index'.entries[e].updated_at
                     >= index'.entries[e].created_at]_vars

\* the round trip done with the clock advancing between add and update
C18_Witness ==
    /\ last.op = "update_entry" /\ last.status = "ok"
    /\ last.by = "entry_id"
    /\ last.section_path = <<"Projects">>
    /\ index.entries[last.entry_id].text = last.text
    /\ index.entries[last.entry_id].created_at = 0
    /\ index.entries[last.entry_id].updated_at = 1

-----------------------------------------------------------------------------
(* C19 *)

\* C19: update_entry_to_index on an existing entry_id changes only the text
\* and the updated_at of that entry and the updated_at of the index: the
\* entry_id, section_path, paragraph_index and created_at of the entry, the
\* sections with their entry_ids, and every other entry are unchanged.
C19_UpdateIndexFrame ==
    [][UpdatedOk =>
          LET e == last'.entry_id
          IN  /\ DOMAIN index'.entries = DOMAIN index.entries
              /\ e \in DOMAIN index.entries
              /\ index'.entries[e].entry_id = index.entries[e].entry_id
              /\ index'.entries[e].section_path
                     = index.entries[e].section_path
              /\ index'.entries[e].paragraph_index
                     = index.entries[e].paragraph_index
              /\ index'.entries[e].created_at = index.entries[e].created_at
              /\ index'.sections = index.sections
              /\ index'.created_at = index.created_at
              /\ \A x \in DOMAIN index.entries \ {e} :
                     index'.entries[x] = index.entries[x]]_vars

\* one of two entries updated, found by its text, later than it was created
C19_Witness ==
    /\ last.op = "update_entry" /\ last.status = "ok"
    /\ last.by = "text"
    /\ Cardinality(DOMAIN index.entries) = 2
    /\ index.entries[last.entry_id].updated_at
           > index.entries[last.entry_id].created_at
    /\ index.updated_at = index.entries[last.entry_id].updated_at

-----------------------------------------------------------------------------
(* C20 *)

\* a locate call on a path "Main/Sub" has returned
LocatedNested ==
    /\ last.op = "locate"
    /\ NestedSection(last.section_path) # << >>

\* C20: for a path "Main/Sub" whose main section resolves to [s, e), the
\* locator returns (i + 1, j) where i is the smallest index in [s, e) of a
\* heading paragraph whose text is Sub and j the smallest index in (i, e) of
\* any heading paragraph, or e if there is none; it returns None when no
\* heading in [s, e) has the text Sub, even if one exists elsewhere in the
\* document; the range satisfies s <= i + 1 <= j <= e.
C20_NestedLocate ==
    LocatedNested =>
        LET main == find_section_paragraph(doc, MainSection(last.section_path))
            sub  == NestedSection(last.section_path)
        IN  IF main = << >> THEN last.range = << >>
            ELSE LET s    == main[1]
                     e    == main[2]
                     subs == {i \in s..e - 1 :
                                 IsHeadingAt(doc, i) /\ TextAt(doc, i) = sub}
                 IN  IF subs = {} THEN last.range = << >>
                     ELSE LET i  == Min(subs)
                              hs == {j \in i + 1..e - 1 : IsHeadingAt(doc, j)}
                              j  == IF hs = {} THEN e ELSE Min(hs)
                          IN  /\ last.range = <<i + 1, j>>
                              /\ s <= i + 1 /\ i + 1 <= j /\ j <= e

\* a subsection that holds a paragraph and ends at the next heading inside
\* its main section
C20_Witness ==
    /\ LocatedNested
    /\ last.range # << >>
    /\ last.range[1] < last.range[2]
    /\ last.range[2] < Len(doc)
    /\ IsHeadingAt(doc, last.range[2])
    /\ TextAt(doc, last.range[2]) \notin TopLevelNames

\* no subsection inside the main section, a heading with its text after it
C20_WitnessElsewhere ==
    /\ LocatedNested
    /\ last.range = << >>
    /\ find_section_paragraph(doc, MainSection(last.section_path)) # << >>
    /\ HeadingsNamed(doc, NestedSection(last.section_path)) # {}

-----------------------------------------------------------------------------
(* C21 *)

\* the section paths probed: the top-level names, the paths of the add_entry
\* calls and the subsections of the template
ProbePaths ==
    TopLevelNames \cup {call[1] : call \in AddCalls}
        \cup {<<"Outside of work", " ", "/", " ", "Talks">>}

\* the heading paragraphs of d, in order
RECURSIVE HeadingParagraphs(_)
HeadingParagraphs(d) ==
    IF d = << >> THEN << >>
    ELSE (IF is_heading_paragraph(Head(d)) THEN <<Head(d)>> ELSE << >>)
             \o HeadingParagraphs(Tail(d))

\* C21: every section path that resolves in the document before a
\* successful add_entry or update_entry resolves after it; no operation
\* changes the text or the heading classification of a heading paragraph,
\* and add_entry creates no paragraph that is classified as a heading: the
\* heading paragraphs of the document are the same, in the same order.
C21_SectionsPreserved ==
    [][(AddedOk \/ UpdatedOk) =>
          /\ \A path \in ProbePaths :
                 find_section_paragraph(doc, path) # << >> =>
                     find_section_paragraph(doc', path) # << >>
          /\ HeadingParagraphs(doc') = HeadingParagraphs(doc)]_vars

\* C21 for the steps in which update_entry reaches the paragraph that was
\* inserted for its entry
C21_WhenIndexIsCurrent ==
    [][(\/ AddedOk
        \/ /\ UpdatedOk
           /\ Para(doc, last'.paragraph_index).eid = last'.entry_id) =>
          /\ \A path \in ProbePaths :
                 find_section_paragraph(doc, path) # << >> =>
                     find_section_paragraph(doc', path) # << >>
          /\ HeadingParagraphs(doc') = HeadingParagraphs(doc)]_vars

-----------------------------------------------------------------------------
(* C22 *)

\* the paragraphs of d inserted for an entry that idx does not record
OrphanParagraphs(d, idx) ==
    {i \in 0..Len(d) - 1 :
        Para(d, i).eid # 0 /\ Para(d, i).eid \notin DOMAIN idx.entries}

\* C22: whenever add_entry returns an error result, for any cause, an
\* unreadable or unwritable index file included, the document is exactly as
\* it was before the call: no entry paragraph is in the document without a
\* matching record in the index.
C22_FailedAddLeavesDocument ==
    [][(last'.op = "add_entry" /\ last'.status = "error") =>
          /\ doc' = doc
          /\ OrphanParagraphs(doc', index') \subseteq
                 OrphanParagraphs(doc, index)]_vars

-----------------------------------------------------------------------------
(* C23 *)

\* both add_entry calls have returned success
BothAdded == \A p \in Procs : calls[p].pc = "done" /\ calls[p].status = "ok"

\* C23: if two add_entry calls on the same (name, year) interleave at the
\* granularity of their file reads and writes (document load, document
\* save, index load, index save) and both return success, then the index
\* holds both entries, each id in entries and in the entry_ids of its
\* section, and the document holds both inserted paragraphs.
C23_InterleavedAddsKeepBoth ==
    BothAdded =>
        \A p \in Procs :
            LET e == calls[p].entry_id
            IN  /\ e \in DOMAIN index.entries
                /\ Cardinality(ListingsOf(index, e)) = 1
                /\ ParagraphsOf(doc, e) # {}

\* call p loaded the document and the index after call q had saved them
ReadAfterWrites(p, q) ==
    /\ ParagraphsOf(calls[p].doc, calls[q].entry_id) # {}
    /\ calls[q].entry_id \in DOMAIN calls[p].index.entries

\* C23 for two calls of which one read both files after the other had
\* written them, as calls made one after the other do
C23_OrderedAddsKeepBoth ==
    (BothAdded /\ \E p, q \in Procs : p # q /\ ReadAfterWrites(p, q)) =>
        \A p \in Procs :
            LET e == calls[p].entry_id
            IN  /\ e \in DOMAIN index.entries
                /\ Cardinality(ListingsOf(index, e)) = 1
                /\ ParagraphsOf(doc, e) # {}

\* two calls done, one after the other
C23_OrderedReached ==
    BothAdded /\ \E p, q \in Procs : p # q /\ ReadAfterWrites(p, q)

=============================================================================
